---- MODULE Spec2Model ----
(***************************************************************************)
(* A model of package tpm's PCR selection and composite digest code        *)
(* (pcrs.go): pcrMask.setPCR / isPCRSet, newPCRSelection,                  *)
(* createPCRComposite, createPCRInfoLong and newPCRInfoLong.               *)
(*                                                                         *)
(* Bytes are naturals below 256, byte strings are sequences of bytes, a    *)
(* pcrMask is a sequence of 3 bytes.  An error is a tuple, the nil error   *)
(* is the empty tuple.  A 32-bit word of SHA-1 is a pair <<hi, lo>> of     *)
(* 16-bit halves, because TLC's integers are 32-bit signed.                *)
(***************************************************************************)
EXTENDS Integers, Sequences, FiniteSets, TLC

VARIABLES
    pm,        \* the pcrMask that setPCR / isPCRSet are called on
    nsets,     \* the number of calls of setPCR on pm so far
    call,      \* the last call of a function: its name and arguments
    ret,       \* what that call returned
    pc,        \* newPCRInfoLong: the position of the call in progress
    pcrNums,   \* newPCRInfoLong: the argument pcrNums
    loc,       \* newPCRInfoLong: the argument loc
    bank,      \* newPCRInfoLong: the PCR bank of the device behind f
    k,         \* newPCRInfoLong: position of the range loop in pcrNums
    mask,      \* newPCRInfoLong: the local variable mask
    pcrVals,   \* newPCRInfoLong: the local variable pcrVals
    steps      \* newPCRInfoLong: the steps taken so far, in order

vars == <<pm, nsets, call, ret, pc, pcrNums, loc, bank, k, mask, pcrVals, steps>>

(***************************************************************************)
(* Bounds of the model.                                                    *)
(***************************************************************************)
\* Most calls of setPCR on the mask pm in one behaviour.
MaxSets == 2
\* Indices handed to setPCR / isPCRSet range over -IndexMargin .. 23 + IndexMargin.
IndexMargin == 9
\* Longest index list handed to newPCRSelection and newPCRInfoLong.
MaxNums == 3
\* Most 20-byte PCR values in a blob handed to createPCRComposite.
MaxBlocks == 3
\* Localities 0 .. MaxLoc (and 255) are handed to createPCRInfoLong.
MaxLoc == 9

(***************************************************************************)
(* Program constants.                                                      *)
(***************************************************************************)
PCRSize == 20
\* The long-PCR-info structure tag (TPM_TAG_PCR_INFO_LONG), declared outside pcrs.go.
tagPCRInfoLong == 6

NoError == <<>>
\* A nil *pcrSelection or *pcrInfoLong.
Nil == [isNil |-> TRUE]

(***************************************************************************)
(* Bitwise operations on naturals below 2^16.                              *)
(***************************************************************************)
RECURSIVE BitAndRec(_, _)
BitAndRec(a, b) ==
    IF a = 0 \/ b = 0 THEN 0
    ELSE ((a % 2) * (b % 2)) + 2 * BitAndRec(a \div 2, b \div 2)

NibbleAnd == [a \in 0..15 |-> [b \in 0..15 |-> BitAndRec(a, b)]]

\* a & b
BitAnd(a, b) ==
    NibbleAnd[a % 16][b % 16]
    + 16 * NibbleAnd[(a \div 16) % 16][(b \div 16) % 16]
    + 256 * NibbleAnd[(a \div 256) % 16][(b \div 256) % 16]
    + 4096 * NibbleAnd[a \div 4096][b \div 4096]

\* a | b
BitOr(a, b) == a + b - BitAnd(a, b)

\* a ^ b
BitXor(a, b) == a + b - 2 * BitAnd(a, b)

\* byte(x << n) for a byte x and a shift count n >= 0: Go drops the bits
\* shifted out of the 8-bit operand, so a count of 8 or more yields 0.
ShlByte(x, n) == IF n >= 8 THEN 0 ELSE (x * (2 ^ n)) % 256

(***************************************************************************)
(* SHA-1 (crypto/sha1.Sum), on byte sequences.                             *)
(***************************************************************************)
W32And(x, y) == <<BitAnd(x[1], y[1]), BitAnd(x[2], y[2])>>
W32Or(x, y) == <<BitOr(x[1], y[1]), BitOr(x[2], y[2])>>
W32Xor(x, y) == <<BitXor(x[1], y[1]), BitXor(x[2], y[2])>>
W32Not(x) == <<65535 - x[1], 65535 - x[2]>>

\* x + y modulo 2^32
W32Add(x, y) ==
    LET lo == x[2] + y[2]
        hi == x[1] + y[1] + (lo \div 65536)
    IN <<hi % 65536, lo % 65536>>

W32RotlLow(x, n) ==
    <<((x[1] * (2 ^ n)) % 65536) + (x[2] \div (2 ^ (16 - n))),
      ((x[2] * (2 ^ n)) % 65536) + (x[1] \div (2 ^ (16 - n)))>>

\* x rotated left by n bits, 0 <= n < 32
W32Rotl(x, n) ==
    IF n < 16 THEN W32RotlLow(x, n) ELSE W32RotlLow(<<x[2], x[1]>>, n - 16)

\* The 4 bytes of n, most significant first (n < 2^31).
BE32(n) == <<(n \div 16777216) % 256, (n \div 65536) % 256, (n \div 256) % 256, n % 256>>

\* The 2 bytes of n, most significant first (n < 2^16).
BE16(n) == <<(n \div 256) % 256, n % 256>>

Zeros(n) == [j \in 1..n |-> 0]

\* The message, then 0x80, zeros up to 56 modulo 64, and the bit length in 8 bytes.
SHA1Pad(m) ==
    LET l == Len(m)
        z == (119 - (l % 64)) % 64
    IN m \o <<128>> \o Zeros(z) \o <<0, 0, 0, 0>> \o BE32(8 * l)

WordAt(p, j) == <<p[j] * 256 + p[j + 1], p[j + 2] * 256 + p[j + 3]>>

\* F applied to the value of v.  TLC evaluates v once, when it builds {v}, and
\* hands F the value: a definition of LET may be evaluated again at each use.
Let(v, F(_)) == CHOOSE y \in {F(x) : x \in {v}} : TRUE

RECURSIVE SHA1Extend(_, _)
SHA1Extend(w, n) ==
    IF Len(w) = n THEN w
    ELSE LET t == Len(w) + 1
         IN Let(Append(w, W32Rotl(W32Xor(W32Xor(w[t - 3], w[t - 8]),
                                         W32Xor(w[t - 14], w[t - 16])), 1)),
                LAMBDA w1 : SHA1Extend(w1, n))

\* The 80-word message schedule of a block, extended 16 words at a time.
SHA1Schedule(w16) ==
    Let(SHA1Extend(w16, 32), LAMBDA w32 :
    Let(SHA1Extend(w32, 48), LAMBDA w48 :
    Let(SHA1Extend(w48, 64), LAMBDA w64 : SHA1Extend(w64, 80))))

SHA1F(t, b, c, d) ==
    IF t < 20 THEN W32Or(W32And(b, c), W32And(W32Not(b), d))
    ELSE IF t < 40 THEN W32Xor(W32Xor(b, c), d)
    ELSE IF t < 60 THEN W32Or(W32Or(W32And(b, c), W32And(b, d)), W32And(c, d))
    ELSE W32Xor(W32Xor(b, c), d)

\* 0x5A827999, 0x6ED9EBA1, 0x8F1BBCDC, 0xCA62C1D6
SHA1K(t) ==
    IF t < 20 THEN <<23170, 31129>>
    ELSE IF t < 40 THEN <<28377, 60321>>
    ELSE IF t < 60 THEN <<36635, 48348>>
    ELSE <<51810, 49622>>

\* Rounds t .. tEnd - 1 on the working variables s = <<a, b, c, d, e>>.
RECURSIVE SHA1Rounds(_, _, _, _)
SHA1Rounds(w, t, tEnd, s) ==
    IF t = tEnd THEN s
    ELSE Let(<<W32Add(W32Add(W32Add(W32Add(W32Rotl(s[1], 5), SHA1F(t, s[2], s[3], s[4])),
                                    s[5]), SHA1K(t)), w[t + 1]),
               s[1], W32Rotl(s[2], 30), s[3], s[4]>>,
             LAMBDA ns : SHA1Rounds(w, t + 1, tEnd, ns))

\* The hash value after the 64-byte block of p at offset off, 20 rounds at a time.
SHA1Block(h, p, off) ==
    Let(SHA1Schedule([j \in 1..16 |-> WordAt(p, off + 4 * (j - 1) + 1)]), LAMBDA w :
    Let(SHA1Rounds(w, 0, 20, h), LAMBDA s20 :
    Let(SHA1Rounds(w, 20, 40, s20), LAMBDA s40 :
    Let(SHA1Rounds(w, 40, 60, s40), LAMBDA s60 :
    Let(SHA1Rounds(w, 60, 80, s60), LAMBDA s80 :
        [j \in 1..5 |-> W32Add(h[j], s80[j])])))))

RECURSIVE SHA1Blocks(_, _, _)
SHA1Blocks(h, p, off) ==
    IF off >= Len(p) THEN h
    ELSE Let(SHA1Block(h, p, off), LAMBDA nh : SHA1Blocks(nh, p, off + 64))

\* 0x67452301, 0xEFCDAB89, 0x98BADCFE, 0x10325476, 0xC3D2E1F0
SHA1Init ==
    <<<<26437, 8961>>, <<61389, 43913>>, <<39098, 56574>>, <<4146, 21622>>, <<50130, 57840>>>>

\* sha1.Sum(m): the 20 bytes of the digest.
SHA1(m) ==
    Let(SHA1Pad(m), LAMBDA p :
    Let(SHA1Blocks(SHA1Init, p, 0), LAMBDA h :
        [j \in 1..20 |->
            LET w == h[((j - 1) \div 4) + 1]
                q == (j - 1) % 4
            IN IF q = 0 THEN w[1] \div 256
               ELSE IF q = 1 THEN w[1] % 256
               ELSE IF q = 2 THEN w[2] \div 256
               ELSE w[2] % 256]))

(***************************************************************************)
(* pcrMask                                                                 *)
(***************************************************************************)
ZeroMask == <<0, 0, 0>>

\* Mutant of setPCR: the lower bound of the range check is missing; the shift
\* by uint(i%8) of a negative i then shifts every bit out of the byte.
setPCR_NoLowerCheck(m, i) ==
    IF i >= 24 THEN [pm |-> m, err |-> <<"can't set PCR", i>>]
    ELSE IF i < 0 THEN [pm |-> m, err |-> NoError]
    ELSE [pm |-> [m EXCEPT ![(i \div 8) + 1] = BitOr(@, ShlByte(1, i % 8))],
          err |-> NoError]

\* Mutant of setPCR: the bits of a byte are numbered from the most
\* significant one.
setPCR_MSBFirst(m, i) ==
    IF i >= 24 \/ i < 0 THEN [pm |-> m, err |-> <<"can't set PCR", i>>]
    ELSE [pm |-> [m EXCEPT ![(i \div 8) + 1] = BitOr(@, 128 \div (2 ^ (i % 8)))],
          err |-> NoError]

\* func (pm *pcrMask) setPCR(i int) error: the mask afterwards and the error.
setPCR(m, i) ==
    IF i >= 24 \/ i < 0 THEN [pm |-> m, err |-> <<"can't set PCR", i>>]
    ELSE [pm |-> [m EXCEPT ![(i \div 8) + 1] = BitOr(@, ShlByte(1, i % 8))],
          err |-> NoError]

\* func (pm pcrMask) isPCRSet(i int) (bool, error)
isPCRSet(m, i) ==
    IF i >= 24 \/ i < 0 THEN [val |-> FALSE, err |-> <<"can't check PCR", i>>]
    ELSE LET n == ShlByte(1, i % 8)
         IN [val |-> BitAnd(m[(i \div 8) + 1], n) = n, err |-> NoError]

\* The range loop of newPCRSelection and newPCRInfoLong over vals[j..]: setPCR
\* on each value in order, stopping at the first error.
RECURSIVE setPCRs(_, _, _)
setPCRs(m, vals, j) ==
    IF j > Len(vals) THEN [pm |-> m, err |-> NoError]
    ELSE LET r == setPCR(m, vals[j])
         IN IF r.err # NoError THEN [pm |-> m, err |-> r.err]
            ELSE setPCRs(r.pm, vals, j + 1)

(***************************************************************************)
(* pcrSelection                                                            *)
(***************************************************************************)
\* Mutant of newPCRSelection: the error of setPCR is dropped and the
\* selection built from the valid indices is returned.
newPCRSelection_IgnoreErr(vals) ==
    [val |-> [Size |-> 3,
              Mask |-> setPCRs(ZeroMask, SelectSeq(vals, LAMBDA v : v >= 0 /\ v < 24), 1).pm],
     err |-> NoError]

\* func newPCRSelection(pcrVals []int) (*pcrSelection, error)
newPCRSelection(vals) ==
    LET r == setPCRs(ZeroMask, vals, 1)
    IN IF r.err # NoError THEN [val |-> Nil, err |-> r.err]
       ELSE [val |-> [Size |-> 3, Mask |-> r.pm], err |-> NoError]

(***************************************************************************)
(* The structure packer, pack, is declared outside pcrs.go.  It is         *)
(* modelled for the one shape createPCRComposite hands it (a pcrSelection  *)
(* and a byte slice): every field big-endian, a byte slice preceded by its *)
(* 4-byte length.  ok says whether the packer succeeds.                    *)
(***************************************************************************)
packSelection(sel) == BE16(sel.Size) \o sel.Mask

packBytes(bs) == BE32(Len(bs)) \o bs

pack(sel, bs, ok) ==
    IF ok THEN [b |-> packSelection(sel) \o packBytes(bs), err |-> NoError]
    ELSE [b |-> <<>>, err |-> <<"pack failed", 0>>]

(***************************************************************************)
(* createPCRComposite                                                      *)
(***************************************************************************)
\* Mutant of createPCRComposite: the mask itself is packed, not the
\* pcrSelection{3, mask} that carries the size field.
createPCRComposite_NoSize(m, pcrs, packOK) ==
    IF Len(pcrs) % PCRSize # 0
    THEN [val |-> <<>>, err |-> <<"pcrs must be a multiple of", PCRSize>>, hashed |-> <<>>]
    ELSE LET p == pack([Size |-> 3, Mask |-> m], pcrs, packOK)
         IN IF p.err # NoError THEN [val |-> <<>>, err |-> p.err, hashed |-> <<>>]
            ELSE LET b == SubSeq(p.b, 3, Len(p.b))
                 IN [val |-> SHA1(b), err |-> NoError, hashed |-> <<b>>]

\* Mutant of createPCRComposite: the length of pcrs is not checked.
createPCRComposite_NoLenCheck(m, pcrs, packOK) ==
    LET p == pack([Size |-> 3, Mask |-> m], pcrs, packOK)
    IN IF p.err # NoError THEN [val |-> <<>>, err |-> p.err, hashed |-> <<>>]
       ELSE [val |-> SHA1(p.b), err |-> NoError, hashed |-> <<p.b>>]

\* func createPCRComposite(mask pcrMask, pcrs []byte) ([]byte, error).
\* hashed holds the buffer b handed to sha1.Sum, if the call got that far.
createPCRComposite(m, pcrs, packOK) ==
    IF Len(pcrs) % PCRSize # 0
    THEN [val |-> <<>>, err |-> <<"pcrs must be a multiple of", PCRSize>>, hashed |-> <<>>]
    ELSE LET p == pack([Size |-> 3, Mask |-> m], pcrs, packOK)
         IN IF p.err # NoError THEN [val |-> <<>>, err |-> p.err, hashed |-> <<>>]
            ELSE [val |-> SHA1(p.b), err |-> NoError, hashed |-> <<p.b>>]

(***************************************************************************)
(* pcrInfoLong                                                             *)
(***************************************************************************)
\* copy(dst[:], d) into a zeroed digest ([20]byte)
CopyDigest(d) == [j \in 1..20 |-> IF j <= Len(d) THEN d[j] ELSE 0]

\* Mutant of createPCRInfoLong: the digest is copied into DigestAtRelease only.
createPCRInfoLong_OneDigest(l, m, vals, packOK) ==
    Let(createPCRComposite(m, vals, packOK), LAMBDA c :
       IF c.err # NoError THEN [val |-> Nil, err |-> c.err]
       ELSE LET locVal == ShlByte(1, l)
            IN [val |-> [Tag |-> tagPCRInfoLong,
                         LocAtCreation |-> locVal,
                         LocAtRelease |-> locVal,
                         PCRsAtCreation |-> [Size |-> 3, Mask |-> m],
                         PCRsAtRelease |-> [Size |-> 3, Mask |-> m],
                         DigestAtCreation |-> Zeros(20),
                         DigestAtRelease |-> CopyDigest(c.val)],
                err |-> NoError])

\* Mutant of createPCRInfoLong: the shift count is reduced modulo 8, as a
\* rotation would.
createPCRInfoLong_WrapShift(l, m, vals, packOK) ==
    Let(createPCRComposite(m, vals, packOK), LAMBDA c :
       IF c.err # NoError THEN [val |-> Nil, err |-> c.err]
       ELSE LET locVal == ShlByte(1, l % 8)
            IN [val |-> [Tag |-> tagPCRInfoLong,
                         LocAtCreation |-> locVal,
                         LocAtRelease |-> locVal,
                         PCRsAtCreation |-> [Size |-> 3, Mask |-> m],
                         PCRsAtRelease |-> [Size |-> 3, Mask |-> m],
                         DigestAtCreation |-> CopyDigest(c.val),
                         DigestAtRelease |-> CopyDigest(c.val)],
                err |-> NoError])

\* func createPCRInfoLong(loc byte, mask pcrMask, pcrVals []byte) (*pcrInfoLong, error)
createPCRInfoLong(l, m, vals, packOK) ==
    Let(createPCRComposite(m, vals, packOK), LAMBDA c :
       IF c.err # NoError THEN [val |-> Nil, err |-> c.err]
       ELSE LET locVal == ShlByte(1, l)
            IN [val |-> [Tag |-> tagPCRInfoLong,
                         LocAtCreation |-> locVal,
                         LocAtRelease |-> locVal,
                         PCRsAtCreation |-> [Size |-> 3, Mask |-> m],
                         PCRsAtRelease |-> [Size |-> 3, Mask |-> m],
                         DigestAtCreation |-> CopyDigest(c.val),
                         DigestAtRelease |-> CopyDigest(c.val)],
                err |-> NoError])

(***************************************************************************)
(* The PCR value source, FetchPCRValues, is declared outside pcrs.go.  It  *)
(* returns one 20-byte value for each index of the sequence it is handed,  *)
(* in that order, or fails.  A bank is the content of the device's PCRs.   *)
(***************************************************************************)
ReadPCR(bnk, i) ==
    [j \in 1..PCRSize |-> IF bnk = "zero" THEN 0 ELSE (10 * i + j) % 256]

RECURSIVE ReadPCRs(_, _, _)
ReadPCRs(bnk, nums, j) ==
    IF j > Len(nums) THEN <<>> ELSE ReadPCR(bnk, nums[j]) \o ReadPCRs(bnk, nums, j + 1)

FetchPCRValues(bnk, nums, ok) ==
    IF ok THEN [val |-> ReadPCRs(bnk, nums, 1), err |-> NoError]
    ELSE [val |-> <<>>, err |-> <<"fetch failed", 0>>]

(***************************************************************************)
(* Inputs                                                                  *)
(***************************************************************************)
IndexInputs == (0 - IndexMargin)..(23 + IndexMargin)

\* Masks handed in as arguments: none, PCRs {0, 9, 23}, all.
MaskInputs == {ZeroMask, <<1, 2, 128>>, <<255, 255, 255>>}

\* Indices index lists are made of: in range, and just out of range.
NumInputs == {-1, 0, 5, 17, 23, 24}
NumLists == UNION {[1..n -> NumInputs] : n \in 0..MaxNums}

\* Byte strings of a length: all zero, or the bytes 1, 2, 3, ...
Blob(kind, len) == [j \in 1..len |-> IF kind = "zero" THEN 0 ELSE j % 256]

\* Lengths n * 20 + e: the multiples of 20 and 1, 19, 21, 39, ...
BlobInputs ==
    {Blob(kind, n * PCRSize + e) : kind \in {"zero", "ramp"}, n \in 0..MaxBlocks, e \in {0, 1, 19}}

LocInputs == (0..MaxLoc) \cup {255}

\* newPCRInfoLong: index lists, localities and PCR banks.
InfoNumInputs == {-1, 0, 17, 24}
InfoNumLists == UNION {[1..n -> InfoNumInputs] : n \in 0..MaxNums}
InfoLocInputs == {0, 3}
BankInputs == {"zero", "distinct"}

(***************************************************************************)
(* Initial states                                                          *)
(***************************************************************************)
InitRest ==
    /\ nsets = 0
    /\ call = [op |-> "none"]
    /\ ret = [val |-> Nil, err |-> NoError]
    /\ pc = "idle"
    /\ pcrNums = <<>>
    /\ loc = 0
    /\ bank = "zero"
    /\ k = 1
    /\ mask = ZeroMask
    /\ pcrVals = <<>>
    /\ steps = <<>>

Init == pm = ZeroMask /\ InitRest

\* The mask operations start from any of the input masks.
InitMask == pm \in MaskInputs /\ InitRest

infoVars == <<pc, pcrNums, loc, bank, k, mask, pcrVals, steps>>

(***************************************************************************)
(* Calls of the mask operations on pm                                      *)
(***************************************************************************)
SetPCR(i) ==
    /\ nsets < MaxSets
    /\ LET r == setPCR(pm, i)
       IN /\ pm' = r.pm
          /\ call' = [op |-> "setPCR", pm |-> pm, i |-> i]
          /\ ret' = [err |-> r.err]
    /\ nsets' = nsets + 1
    /\ UNCHANGED infoVars

IsPCRSet(i) ==
    /\ call' = [op |-> "isPCRSet", pm |-> pm, i |-> i]
    /\ ret' = isPCRSet(pm, i)
    /\ UNCHANGED <<pm, nsets>>
    /\ UNCHANGED infoVars

NextMask == \E i \in IndexInputs : SetPCR(i) \/ IsPCRSet(i)

SpecMask == InitMask /\ [][NextMask]_vars

(***************************************************************************)
(* One call of newPCRSelection                                             *)
(***************************************************************************)
NewPCRSelection(vals) ==
    /\ call.op = "none"
    /\ call' = [op |-> "newPCRSelection", pcrVals |-> vals]
    /\ ret' = newPCRSelection(vals)
    /\ UNCHANGED <<pm, nsets>>
    /\ UNCHANGED infoVars

NextSelection == \E vals \in NumLists : NewPCRSelection(vals)

SpecSelection == Init /\ [][NextSelection]_vars

(***************************************************************************)
(* One call of createPCRComposite or of createPCRInfoLong                  *)
(***************************************************************************)
CreatePCRComposite(m, pcrs, packOK) ==
    /\ call.op = "none"
    /\ call' = [op |-> "createPCRComposite", mask |-> m, pcrs |-> pcrs, packOK |-> packOK]
    /\ ret' = createPCRComposite(m, pcrs, packOK)
    /\ UNCHANGED <<pm, nsets>>
    /\ UNCHANGED infoVars

CreatePCRInfoLong(l, m, vals, packOK) ==
    /\ call.op = "none"
    /\ call' = [op |-> "createPCRInfoLong", loc |-> l, mask |-> m, pcrVals |-> vals,
                packOK |-> packOK]
    /\ ret' = createPCRInfoLong(l, m, vals, packOK)
    /\ UNCHANGED <<pm, nsets>>
    /\ UNCHANGED infoVars

NextComposite ==
    \/ \E m \in MaskInputs, pcrs \in BlobInputs, packOK \in BOOLEAN :
           CreatePCRComposite(m, pcrs, packOK)
    \/ \E l \in LocInputs, m \in MaskInputs, vals \in BlobInputs, packOK \in BOOLEAN :
           CreatePCRInfoLong(l, m, vals, packOK)

SpecComposite == Init /\ [][NextComposite]_vars

(***************************************************************************)
(* newPCRInfoLong, step by step                                            *)
(***************************************************************************)
\* The call: f (a device whose PCRs hold bnk), loc and pcrNums; var mask pcrMask.
NewPCRInfoLong_Call(bnk, l, nums) ==
    /\ pc = "idle"
    /\ pc' = "loop"
    /\ bank' = bnk
    /\ loc' = l
    /\ pcrNums' = nums
    /\ mask' = ZeroMask
    /\ k' = 1
    /\ call' = [op |-> "newPCRInfoLong"]
    /\ UNCHANGED <<pm, nsets, ret, pcrVals, steps>>

\* Mutant of NewPCRInfoLong_SetPCR: the error of setPCR is dropped and the loop
\* goes on.
NewPCRInfoLong_SetPCR_IgnoreErr ==
    /\ pc = "loop"
    /\ k <= Len(pcrNums)
    /\ mask' = setPCR(mask, pcrNums[k]).pm
    /\ k' = k + 1
    /\ steps' = Append(steps, "setPCR")
    /\ UNCHANGED <<pm, nsets, call, ret, pc, pcrNums, loc, bank, pcrVals>>

\* One iteration of the range loop: mask.setPCR(pcr), returning its error.
NewPCRInfoLong_SetPCR ==
    /\ pc = "loop"
    /\ k <= Len(pcrNums)
    /\ LET r == setPCR(mask, pcrNums[k])
       IN IF r.err # NoError
          THEN /\ ret' = [val |-> Nil, err |-> r.err]
               /\ pc' = "done"
               /\ steps' = Append(steps, "setPCR failed")
               /\ UNCHANGED <<mask, k>>
          ELSE /\ mask' = r.pm
               /\ k' = k + 1
               /\ steps' = Append(steps, "setPCR")
               /\ UNCHANGED <<ret, pc>>
    /\ UNCHANGED <<pm, nsets, call, pcrNums, loc, bank, pcrVals>>

\* Mutant of NewPCRInfoLong_Fetch: the error of FetchPCRValues is dropped and
\* the call goes on with the empty pcrVals.
NewPCRInfoLong_Fetch_IgnoreErr ==
    /\ pc = "loop"
    /\ k > Len(pcrNums)
    /\ \E ok \in BOOLEAN :
          LET r == FetchPCRValues(bank, pcrNums, ok)
          IN /\ pcrVals' = r.val
             /\ pc' = "create"
             /\ steps' = Append(steps, IF r.err # NoError THEN "fetch failed" ELSE "fetch")
    /\ UNCHANGED <<pm, nsets, call, ret, pcrNums, loc, bank, k, mask>>

\* After the loop: pcrVals, err := FetchPCRValues(f, pcrNums), returning its error.
NewPCRInfoLong_Fetch ==
    /\ pc = "loop"
    /\ k > Len(pcrNums)
    /\ \E ok \in BOOLEAN :
          LET r == FetchPCRValues(bank, pcrNums, ok)
          IN IF r.err # NoError
             THEN /\ ret' = [val |-> Nil, err |-> r.err]
                  /\ pc' = "done"
                  /\ steps' = Append(steps, "fetch failed")
                  /\ UNCHANGED pcrVals
             ELSE /\ pcrVals' = r.val
                  /\ pc' = "create"
                  /\ steps' = Append(steps, "fetch")
                  /\ UNCHANGED ret
    /\ UNCHANGED <<pm, nsets, call, pcrNums, loc, bank, k, mask>>

\* return createPCRInfoLong(loc, mask, pcrVals)
NewPCRInfoLong_Create ==
    /\ pc = "create"
    /\ \E packOK \in BOOLEAN :
          LET r == createPCRInfoLong(loc, mask, pcrVals, packOK)
          IN /\ ret' = r
             /\ steps' = Append(steps, IF r.err # NoError THEN "create failed" ELSE "create")
    /\ pc' = "done"
    /\ UNCHANGED <<pm, nsets, call, pcrNums, loc, bank, k, mask, pcrVals>>

NextInfoLong ==
    \/ \E bnk \in BankInputs, l \in InfoLocInputs, nums \in InfoNumLists :
           NewPCRInfoLong_Call(bnk, l, nums)
    \/ NewPCRInfoLong_SetPCR
    \/ NewPCRInfoLong_Fetch
    \/ NewPCRInfoLong_Create

SpecInfoLong == Init /\ [][NextInfoLong]_vars

(***************************************************************************)
(* Vocabulary of the properties                                            *)
(***************************************************************************)
InRange(i) == i >= 0 /\ i < 24

\* Bit n of the byte b.
Bit(b, n) == (b \div (2 ^ n)) % 2

\* Bit (i % 8) of byte (i / 8) of the mask m, for i in [0, 24).
MaskBit(m, i) == Bit(m[(i \div 8) + 1], i % 8)

IsMask(m) == Len(m) = 3 /\ \A b \in 1..3 : m[b] \in 0..255

OneHot(b) == b \in {1, 2, 4, 8, 16, 32, 64, 128}

Min(S) == CHOOSE x \in S : \A y \in S : x <= y

\* 2-byte big-endian 3, the 3 mask bytes, the 4-byte big-endian length of bs, bs.
ExpectedBuffer(m, bs) ==
    <<0, 3>> \o <<m[1], m[2], m[3]>>
    \o <<Len(bs) \div 16777216, (Len(bs) \div 65536) % 256, (Len(bs) \div 256) % 256,
         Len(bs) % 256>>
    \o bs

\* SHA-1 of 00 03 01 02 80 00 00 00 3C followed by 60 zero bytes.
KnownDigest ==
    <<124, 70, 40, 133, 27, 186, 40, 124, 182, 247, 96, 29, 19, 174, 41, 244, 2, 222, 229,
      113>>

\* The values of the PCRs selected in m, in ascending index order.
RECURSIVE SelectedValues(_, _, _)
SelectedValues(bnk, m, i) ==
    IF i >= 24 THEN <<>>
    ELSE (IF MaskBit(m, i) = 1 THEN ReadPCR(bnk, i) ELSE <<>>) \o SelectedValues(bnk, m, i + 1)

\* The positions of pcrNums that hold an index out of range.
InfoBad == {j \in 1..Len(pcrNums) : ~InRange(pcrNums[j])}

Took(e) == \E j \in 1..Len(steps) : steps[j] = e

(***************************************************************************)
(* C1: createPCRComposite(mask, pcrs), with len(pcrs) a multiple of 20 and *)
(* the packer succeeding, hashes exactly the buffer 00 03, the 3 mask      *)
(* bytes, the 4-byte big-endian length of pcrs, pcrs (9 + len(pcrs) bytes, *)
(* no padding) and returns the 20-byte SHA-1 of it; for the mask 01 02 80  *)
(* and 60 zero bytes the buffer has 69 bytes and starts                    *)
(* 00 03 01 02 80 00 00 00 3C.                                             *)
(***************************************************************************)
C1_CompositeBuffer ==
    (call.op = "createPCRComposite" /\ Len(call.pcrs) % 20 = 0 /\ call.packOK) =>
        /\ ret.err = NoError
        /\ ret.hashed = <<ExpectedBuffer(call.mask, call.pcrs)>>
        /\ Len(ret.hashed[1]) = 9 + Len(call.pcrs)
        /\ ret.val = SHA1(ExpectedBuffer(call.mask, call.pcrs))
        /\ Len(ret.val) = 20
        /\ (call.mask = <<1, 2, 128>> /\ call.pcrs = Zeros(60)) =>
               /\ Len(ret.hashed[1]) = 69
               /\ SubSeq(ret.hashed[1], 1, 9) = <<0, 3, 1, 2, 128, 0, 0, 0, 60>>
               /\ SubSeq(ret.hashed[1], 10, 69) = Zeros(60)
               /\ ret.val = KnownDigest

C1_Witness ==
    /\ call.op = "createPCRComposite"
    /\ call.mask = <<1, 2, 128>>
    /\ call.pcrs = Zeros(60)
    /\ Len(ret.hashed) = 1
    /\ Len(ret.hashed[1]) = 69
    /\ ret.val = KnownDigest

(***************************************************************************)
(* C2: for every mask and every i in [0,24), setPCR succeeds, afterwards   *)
(* isPCRSet(i) is true and isPCRSet(j) is unchanged for every other j: the *)
(* only change is that bit (i % 8) of byte (i / 8) becomes 1.  isPCRSet    *)
(* reports that bit, so it is false for every i on the all-zero mask.      *)
(***************************************************************************)
C2_SetPCRFrame ==
    /\ (call.op = "setPCR" /\ InRange(call.i)) =>
          /\ ret.err = NoError
          /\ IsMask(pm)
          /\ isPCRSet(pm, call.i) = [val |-> TRUE, err |-> NoError]
          /\ \A j \in (0..23) \ {call.i} : isPCRSet(pm, j) = isPCRSet(call.pm, j)
          /\ \A j \in 0..23 : MaskBit(pm, j) = IF j = call.i THEN 1 ELSE MaskBit(call.pm, j)
    /\ (call.op = "isPCRSet" /\ InRange(call.i)) =>
          /\ ret.err = NoError
          /\ ret.val = (MaskBit(call.pm, call.i) = 1)
          /\ call.pm = ZeroMask => ret.val = FALSE
          /\ pm = call.pm

C2_Witness ==
    /\ call.op = "setPCR"
    /\ call.i = 17
    /\ call.pm = <<1, 2, 128>>
    /\ pm = <<1, 2, 130>>
    /\ ret.err = NoError

(***************************************************************************)
(* C3: for every index outside [0,24), setPCR and isPCRSet return an error *)
(* (no clamping, no wrapping), isPCRSet reports false with it, and the     *)
(* failed setPCR leaves the 3 bytes of the mask unchanged.                 *)
(***************************************************************************)
C3_OutOfRange ==
    /\ (call.op = "setPCR" /\ ~InRange(call.i)) =>
          /\ ret.err = <<"can't set PCR", call.i>>
          /\ ret.err # NoError
          /\ pm = call.pm
    /\ (call.op = "isPCRSet" /\ ~InRange(call.i)) =>
          /\ ret.err = <<"can't check PCR", call.i>>
          /\ ret.err # NoError
          /\ ret.val = FALSE
          /\ pm = call.pm

C3_Witness ==
    /\ call.op = "setPCR"
    /\ call.i = 24
    /\ call.pm = <<1, 2, 128>>
    /\ pm = <<1, 2, 128>>
    /\ ret.err # NoError

(***************************************************************************)
(* C4: createPCRComposite returns an error and no digest exactly when      *)
(* len(pcrs) is not a multiple of 20 or the packer fails; otherwise a      *)
(* 20-byte digest and no error.  Never both, never a default digest.       *)
(***************************************************************************)
C4_CompositeErrors ==
    call.op = "createPCRComposite" =>
        /\ (ret.err # NoError) <=> (Len(call.pcrs) % 20 # 0 \/ ~call.packOK)
        /\ Len(call.pcrs) % 20 # 0 => ret.err = <<"pcrs must be a multiple of", 20>>
        /\ ret.err # NoError => (ret.val = <<>> /\ ret.hashed = <<>>)
        /\ ret.err = NoError => (Len(ret.val) = 20 /\ Len(ret.hashed) = 1)

C4_Witness ==
    /\ call.op = "createPCRComposite"
    /\ Len(call.pcrs) = 19
    /\ ret.err = <<"pcrs must be a multiple of", 20>>
    /\ ret.val = <<>>

(***************************************************************************)
(* C5: a record returned by createPCRInfoLong(loc, mask, pcrVals) has both *)
(* selections equal to {Size 3, Mask mask}, both digests equal to          *)
(* createPCRComposite(mask, pcrVals), equal localities and the long PCR    *)
(* info tag; when createPCRComposite fails, its error and no record are    *)
(* returned.                                                               *)
(***************************************************************************)
C5_InfoLongFields ==
    call.op = "createPCRInfoLong" =>
        Let(createPCRComposite(call.mask, call.pcrVals, call.packOK), LAMBDA c :
            IF c.err # NoError
            THEN ret = [val |-> Nil, err |-> c.err]
            ELSE /\ ret.err = NoError
                 /\ ret.val # Nil
                 /\ ret.val.PCRsAtCreation = [Size |-> 3, Mask |-> call.mask]
                 /\ ret.val.PCRsAtRelease = [Size |-> 3, Mask |-> call.mask]
                 /\ Len(c.val) = 20
                 /\ ret.val.DigestAtCreation = c.val
                 /\ ret.val.DigestAtRelease = c.val
                 /\ ret.val.LocAtCreation = ret.val.LocAtRelease
                 /\ ret.val.Tag = tagPCRInfoLong)

C5_Witness ==
    /\ call.op = "createPCRInfoLong"
    /\ call.mask = <<1, 2, 128>>
    /\ call.pcrVals = Zeros(60)
    /\ ret.err = NoError
    /\ ret.val.DigestAtCreation = KnownDigest
    /\ ret.val.DigestAtRelease = KnownDigest

(***************************************************************************)
(* C6: newPCRSelection(indices) returns, when every index is in [0,24), a  *)
(* selection of Size 3 whose mask has bit i set iff i occurs in indices    *)
(* (so neither order nor repetition matters); when an index is out of      *)
(* range it returns the error of the first such index and no selection.    *)
(***************************************************************************)
C6_Selection ==
    call.op = "newPCRSelection" =>
        LET vals == call.pcrVals
            bad == {j \in 1..Len(vals) : ~InRange(vals[j])}
        IN IF bad = {}
           THEN /\ ret.err = NoError
                /\ ret.val # Nil
                /\ ret.val.Size = 3
                /\ IsMask(ret.val.Mask)
                /\ \A i \in 0..23 :
                      (MaskBit(ret.val.Mask, i) = 1) <=> (\E j \in 1..Len(vals) : vals[j] = i)
                /\ vals \in {<<23, 0, 17>>, <<0, 17, 23>>} => ret.val.Mask = <<1, 0, 130>>
                /\ vals \in {<<5, 5>>, <<5>>} => ret.val.Mask = <<32, 0, 0>>
           ELSE /\ ret.val = Nil
                /\ ret.err = <<"can't set PCR", vals[Min(bad)]>>

C6_Witness ==
    /\ call.op = "newPCRSelection"
    /\ call.pcrVals = <<23, 0, 17>>
    /\ ret.err = NoError
    /\ ret.val = [Size |-> 3, Mask |-> <<1, 0, 130>>]

(***************************************************************************)
(* C7: newPCRInfoLong returns no record and the originating error when an  *)
(* index is out of range, the value source fails or the digest step fails; *)
(* it returns a record only when all three steps succeed, and then a       *)
(* complete one.                                                           *)
(***************************************************************************)
C7_InfoLongErrors ==
    /\ pc # "done" => ret = [val |-> Nil, err |-> NoError]
    /\ pc = "done" =>
          /\ (ret.val = Nil) <=> (ret.err # NoError)
          /\ InfoBad # {} => ret = [val |-> Nil, err |-> <<"can't set PCR", pcrNums[Min(InfoBad)]>>]
          /\ Took("fetch failed") => ret = [val |-> Nil, err |-> <<"fetch failed", 0>>]
          /\ Took("create failed") => ret = [val |-> Nil, err |-> <<"pack failed", 0>>]
          /\ (ret.val # Nil) <=> (InfoBad = {} /\ Took("fetch") /\ Took("create"))
          /\ ret.val # Nil =>
                /\ ret.val.Tag = tagPCRInfoLong
                /\ ret.val.PCRsAtCreation = [Size |-> 3, Mask |-> mask]
                /\ ret.val.PCRsAtRelease = [Size |-> 3, Mask |-> mask]
                /\ \A i \in 0..23 :
                      (MaskBit(mask, i) = 1) <=> (\E j \in 1..Len(pcrNums) : pcrNums[j] = i)
                /\ ret.val.DigestAtCreation = SHA1(ExpectedBuffer(mask, pcrVals))
                /\ ret.val.DigestAtRelease = ret.val.DigestAtCreation
                /\ ret.val.LocAtCreation = 2 ^ loc
                /\ ret.val.LocAtRelease = 2 ^ loc

C7_Witness ==
    /\ pc = "done"
    /\ Len(pcrNums) = 2
    /\ Took("fetch failed")
    /\ ret = [val |-> Nil, err |-> <<"fetch failed", 0>>]

(***************************************************************************)
(* C8, as stated: for every locality byte loc, LocAtCreation and           *)
(* LocAtRelease of the record createPCRInfoLong returns are a one-hot      *)
(* byte, 1 << loc.                                                         *)
(***************************************************************************)
C8_Original ==
    (call.op = "createPCRInfoLong" /\ ret.err = NoError) =>
        /\ OneHot(ret.val.LocAtCreation)
        /\ OneHot(ret.val.LocAtRelease)

(***************************************************************************)
(* C8, amended: for loc < 8 both fields equal 1 << loc, a one-hot byte;    *)
(* for loc >= 8 the shift, done in 8 bits, leaves 0 in both fields.        *)
(***************************************************************************)
C8_LocalityShift ==
    (call.op = "createPCRInfoLong" /\ ret.err = NoError) =>
        /\ ret.val.LocAtCreation = ret.val.LocAtRelease
        /\ call.loc < 8 => (ret.val.LocAtRelease = 2 ^ call.loc /\ OneHot(ret.val.LocAtRelease))
        /\ call.loc >= 8 => ret.val.LocAtRelease = 0

C8_Witness ==
    /\ call.op = "createPCRInfoLong"
    /\ call.loc = 7
    /\ ret.err = NoError
    /\ ret.val.LocAtCreation = 128
    /\ ret.val.LocAtRelease = 128

(***************************************************************************)
(* C9: in newPCRInfoLong, for every list of indices in [0,24), sorted or   *)
(* not, with or without repetitions, the value blob that is hashed holds   *)
(* exactly one 20-byte value per PCR selected in the mask, in ascending    *)
(* index order.                                                            *)
(***************************************************************************)
C9_BlobMatchesMask ==
    Took("fetch") => pcrVals = SelectedValues(bank, mask, 0)

(***************************************************************************)
(* C10: newPCRInfoLong validates every index and builds the mask, then     *)
(* calls the value source at most once, then computes the digest; the      *)
(* value source is not called when an index is out of range, the digest is *)
(* not computed when the value source failed.                              *)
(***************************************************************************)
C10_StepOrder ==
    /\ Cardinality({j \in 1..Len(steps) : steps[j] \in {"fetch", "fetch failed"}}) <= 1
    /\ Cardinality({j \in 1..Len(steps) : steps[j] \in {"create", "create failed"}}) <= 1
    /\ \A j \in 1..Len(steps) :
          /\ steps[j] \in {"fetch", "fetch failed"} =>
                /\ j = Len(pcrNums) + 1
                /\ \A i \in 1..(j - 1) : steps[i] = "setPCR"
                /\ \A i \in 0..23 :
                      (MaskBit(mask, i) = 1) <=> (\E n \in 1..Len(pcrNums) : pcrNums[n] = i)
          /\ steps[j] \in {"create", "create failed"} =>
                /\ j = Len(pcrNums) + 2
                /\ steps[j - 1] = "fetch"
    /\ InfoBad # {} => ~(Took("fetch") \/ Took("fetch failed") \/ Took("create")
                         \/ Took("create failed"))
    /\ Took("fetch failed") => ~(Took("create") \/ Took("create failed"))

C10_Witness ==
    /\ pc = "done"
    /\ steps = <<"setPCR", "setPCR", "fetch", "create">>
    /\ ret.err = NoError

====
